---- MODULE Spec2Model ----
(***************************************************************************)
(* Model of mirdata/datasets/dagstuhl_choirset.py: the Track accessors     *)
(* (audio, f0, score, to_jams) and the decoders load_audio, load_f0 and    *)
(* load_score.                                                             *)
(*                                                                         *)
(* Python strings are sequences of one-character strings, so that the      *)
(* substring test `mic in s` and os.path.basename are computed, not        *)
(* assumed.  Python values that can meet values of another type carry a    *)
(* type tag.  A CSV field is a piece of text that float() either parses    *)
(* or rejects.                                                             *)
(***************************************************************************)
EXTENDS Integers, Sequences, FiniteSets, TLC

VARIABLES
    fs,        \* the file system: full path -> Missing or the rows of the file
    track,     \* the Track object's attributes set by __init__
    cache,     \* the Track's __dict__ entries written by cached_property
    pc,        \* "start" before the call of a decoder run, "done" after it
    lastOp,    \* the operation performed last, with its arguments
    outcome,   \* what that operation returned or raised
    calls,     \* the decoder calls that operation made, in order
    stats,     \* counters of accesses and decoder runs over the Track's life
    raised     \* the path-resolution failures seen so far

vars == <<fs, track, cache, pc, lastOp, outcome, calls, stats, raised>>

----------------------------------------------------------------------------
(* Bounds of the model *)

MaxRows == 2       \* rows in a decoded file
MaxFields == 4     \* fields in one row
MaxOps == 3        \* operations performed on one Track

----------------------------------------------------------------------------
(* Python values *)

PyNone == [type |-> "NoneType"]
PyStr(s) == [type |-> "str", val |-> s]
PyList(l) == [type |-> "list", val |-> l]

Return(v) == [ok |-> TRUE, val |-> v]
Raise(exc, fmt, arg) == [ok |-> FALSE, exc |-> exc, fmt |-> fmt, arg |-> arg]

\* `t in s` for two strings
IsSubstring(t, s) ==
    \E i \in 0..(Len(s) - Len(t)) : SubSeq(s, i + 1, i + Len(t)) = t

\* os.path.basename: what follows the last "/"
basename(p) ==
    LET slashes == {i \in 1..Len(p) : p[i] = "/"}
        last == IF slashes = {} THEN 0
                ELSE CHOOSE i \in slashes : \A j \in slashes : j <= i
    IN  SubSeq(p, last + 1, Len(p))

\* os.path.exists: a TypeError for anything that is not a path
Missing == [type |-> "missing"]
File(rows) == [type |-> "file", rows |-> rows]

PathExists(path, files) ==
    /\ path.type = "str"
    /\ path.val \in DOMAIN files
    /\ files[path.val].type = "file"

----------------------------------------------------------------------------
(* CSV fields and float() *)

Numeral(n) == [kind |-> "numeral", value |-> n]
Text == [kind |-> "text", value |-> 0]

\* float(field): the number, or a ValueError
CanFloat(field) == field.kind = "numeral"
Float(field) == field.value

\* the first failure of reading row[1..n] with float(), as Python raises it:
\* IndexError when the row is too short, ValueError when the text is no number
RowError(row, n) ==
    LET bad == {k \in 1..n : k > Len(row) \/ ~CanFloat(row[k])}
        k == CHOOSE i \in bad : \A j \in bad : i <= j
    IN  IF k > Len(row)
        THEN Raise("IndexError", "list index out of range", PyNone)
        ELSE Raise("ValueError", "could not convert string to float", PyNone)

RowReads(row, n) == \A k \in 1..n : k <= Len(row) /\ CanFloat(row[k])

----------------------------------------------------------------------------
(* load_audio *)

AudioBuffer(path) == [type |-> "audio", of |-> path, sr |-> 22050, mono |-> TRUE]

load_audio(audio_path, files) ==
    IF audio_path.type = "NoneType" THEN Return(PyNone)
    ELSE IF audio_path.type # "str"
    THEN Raise("TypeError", "stat: path should be string", PyNone)
    ELSE IF ~PathExists(audio_path, files)
    THEN Raise("IOError", "audio_path {} does not exist", audio_path)
    ELSE Return(AudioBuffer(audio_path.val))

----------------------------------------------------------------------------
(* load_f0 *)

NdArray(data) == [type |-> "ndarray", data |-> data]

F0Data(times, freqs, confs) ==
    [type |-> "F0Data", times |-> times, frequencies |-> freqs,
     confidence |-> confs]

\* how many fields of a row the loop body of load_f0 reads
F0FieldsRead(row) == IF Len(row) = 3 THEN 3 ELSE 2

\* if len(line) == 3: confs.append(float(line[2]))
AppendConfWrongColumn(confs, line) ==
    IF Len(line) = 3 THEN Append(confs, Float(line[2])) ELSE confs

AppendConf(confs, line) ==
    IF Len(line) = 3 THEN Append(confs, Float(line[3])) ELSE confs

RECURSIVE F0Loop(_, _, _, _, _)
F0Loop(rows, i, times, freqs, confs) ==
    IF i > Len(rows)
    THEN Return(F0Data(NdArray(times), NdArray(freqs),
                       IF confs = <<>> THEN PyNone ELSE NdArray(confs)))
    ELSE LET line == rows[i]
         IN  IF ~RowReads(line, F0FieldsRead(line))
             THEN RowError(line, F0FieldsRead(line))
             ELSE F0Loop(rows, i + 1,
                         Append(times, Float(line[1])),
                         Append(freqs, Float(line[2])),
                         AppendConf(confs, line))

load_f0_ExistsFirst(f0_path, files) ==
    IF f0_path.type # "str"
    THEN Raise("TypeError", "stat: path should be string", PyNone)
    ELSE IF ~PathExists(f0_path, files)
    THEN Raise("IOError", "f0_path {} does not exist", f0_path)
    ELSE F0Loop(files[f0_path.val].rows, 1, <<>>, <<>>, <<>>)

load_f0(f0_path, files) ==
    IF f0_path.type = "NoneType" THEN Return(PyNone)
    ELSE IF f0_path.type # "str"
    THEN Raise("TypeError", "stat: path should be string", PyNone)
    ELSE IF ~PathExists(f0_path, files)
    THEN Raise("IOError", "f0_path {} does not exist", f0_path)
    ELSE F0Loop(files[f0_path.val].rows, 1, <<>>, <<>>, <<>>)

----------------------------------------------------------------------------
(* load_score *)

NoteData(intervals, notes, confs) ==
    [type |-> "NoteData", intervals |-> intervals, notes |-> notes,
     confidence |-> confs]

\* 2 ** (d / 12) in ten-thousandths, for an integer d
SemitoneRatio ==
    <<10000, 10595, 11225, 11892, 12599, 13348,
      14142, 14983, 15874, 16818, 17818, 18877>>

RECURSIVE TwoTo(_)
TwoTo(n) == IF n = 0 THEN 1 ELSE 2 * TwoTo(n - 1)

Pow2Twelfths(d) ==
    LET q == d \div 12
        r == d % 12
    IN  IF q >= 0 THEN TwoTo(q) * SemitoneRatio[r + 1]
        ELSE SemitoneRatio[r + 1] \div TwoTo(-q)

\* 440 * 2 ** ((midi - 69) / 12), in ten-thousandths of a hertz
MidiToHzRef60(midi) == 440 * Pow2Twelfths(midi - 60)
MidiToHz(midi) == 440 * Pow2Twelfths(midi - 69)

RECURSIVE ScoreLoop(_, _, _, _)
ScoreLoop(rows, i, intervals, notes) ==
    IF i > Len(rows)
    THEN Return(NoteData(NdArray(intervals),
                         NdArray([k \in 1..Len(notes) |-> MidiToHz(notes[k])]),
                         PyNone))
    ELSE LET line == rows[i]
         IN  IF ~RowReads(line, 3)
             THEN RowError(line, 3)
             ELSE ScoreLoop(rows, i + 1,
                            Append(intervals, <<Float(line[1]), Float(line[2])>>),
                            Append(notes, Float(line[3])))

load_score(score_path, files) ==
    IF score_path.type = "NoneType" THEN Return(PyNone)
    ELSE IF score_path.type # "str"
    THEN Raise("TypeError", "stat: path should be string", PyNone)
    ELSE IF ~PathExists(score_path, files)
    THEN Raise("IOError", "score_path {} does not exist", score_path)
    ELSE ScoreLoop(files[score_path.val].rows, 1, <<>>, <<>>)

----------------------------------------------------------------------------
(* Track.__init__ *)

dyn == <<"d", "y", "n">>
hsm == <<"h", "s", "m">>
lrx == <<"l", "r", "x">>
crepe == <<"c", "r", "e", "p", "e">>
pyin == <<"p", "y", "i", "n">>
manual == <<"m", "a", "n", "u", "a", "l">>

audio_ == <<"a", "u", "d", "i", "o", "_">>
f0_crepe_ == <<"f", "0", "_">> \o crepe \o <<"_">>
f0_pyin_ == <<"f", "0", "_">> \o pyin \o <<"_">>
f0_manual_ == <<"f", "0", "_">> \o manual \o <<"_">>
score_key == <<"s", "c", "o", "r", "e">>

data_home == <<"D">>

\* core.Track.get_path: the file of an index key, under data_home
get_path(index, key) ==
    LET i == CHOOSE j \in 1..Len(index) : index[j].key = key
    IN  data_home \o <<"/">> \o index[i].path

\* [get_path(key) for key in _track_paths if token in key]
PathsWithKey(index, token) ==
    LET Has(e) == IsSubstring(token, e.key)
        kept == SelectSeq(index, Has)
    IN  [i \in 1..Len(kept) |-> get_path(index, kept[i].key)]

TrackInit(index) ==
    [_track_paths |-> index,
     audio_paths |-> PathsWithKey(index, audio_),
     f0_crepe_paths |-> PathsWithKey(index, f0_crepe_),
     f0_pyin_paths |-> PathsWithKey(index, f0_pyin_),
     f0_manual_paths |-> PathsWithKey(index, f0_manual_),
     score_path |-> get_path(index, score_key)]

----------------------------------------------------------------------------
(* Track.audio, Track.f0, Track.score, Track.to_jams *)

ValidMics == {dyn, hsm, lrx}

Call(fn, arg) == [fn |-> fn, arg |-> arg]
Did(out, made) == [out |-> out, calls |-> made]

\* [s for s in paths if mic in s]
MicPaths(paths, mic) ==
    LET Has(s) == IsSubstring(mic, s)
    IN  SelectSeq(paths, Has)

Track_audio_FirstMatch(self, mic, files) ==
    IF mic \notin ValidMics
    THEN Did(Raise("ValueError", "mic={} is invalid", PyStr(mic)), <<>>)
    ELSE LET mic_path == MicPaths(self.audio_paths, mic)
         IN  IF mic_path = <<>>
             THEN Did(Raise("ValueError", "No microphone signal found for mic={}",
                            PyStr(mic)), <<>>)
             ELSE Did(load_audio(PyList(<<mic_path[1]>>), files),
                      <<Call("load_audio", PyList(<<mic_path[1]>>))>>)

Track_audio(self, mic, files) ==
    IF mic \notin ValidMics
    THEN Did(Raise("ValueError", "mic={} is invalid", PyStr(mic)), <<>>)
    ELSE LET mic_path == MicPaths(self.audio_paths, mic)
         IN  IF mic_path = <<>>
             THEN Did(Raise("ValueError", "No microphone signal found for mic={}",
                            PyStr(mic)), <<>>)
             ELSE IF Len(mic_path) > 1
             THEN Did(Raise("ValueError",
                            "Found two or more microphone signals for mic={}",
                            PyStr(mic)), <<>>)
             ELSE Did(load_audio(PyList(mic_path), files),
                      <<Call("load_audio", PyList(mic_path))>>)

Track_f0_FirstMatch(self, mic, ann, files) ==
    IF mic \notin ValidMics
    THEN Did(Raise("ValueError", "mic={} is invalid", PyStr(mic)), <<>>)
    ELSE IF ann \notin {crepe, pyin, manual}
    THEN Did(Raise("ValueError", "ann={} is invalid", PyStr(ann)), <<>>)
    ELSE LET paths == IF ann = crepe THEN self.f0_crepe_paths
                      ELSE IF ann = pyin THEN self.f0_pyin_paths
                      ELSE self.f0_manual_paths
             mic_path == MicPaths(paths, mic)
         IN  IF mic_path = <<>>
             THEN Did(Raise("ValueError", "No trajectory found for mic={}",
                            PyStr(mic)), <<>>)
             ELSE Did(load_f0(PyList(<<mic_path[1]>>), files),
                      <<Call("load_f0", PyList(<<mic_path[1]>>))>>)

Track_f0(self, mic, ann, files) ==
    IF mic \notin ValidMics
    THEN Did(Raise("ValueError", "mic={} is invalid", PyStr(mic)), <<>>)
    ELSE IF ann \notin {crepe, pyin, manual}
    THEN Did(Raise("ValueError", "ann={} is invalid", PyStr(ann)), <<>>)
    ELSE LET paths == IF ann = crepe THEN self.f0_crepe_paths
                      ELSE IF ann = pyin THEN self.f0_pyin_paths
                      ELSE self.f0_manual_paths
             mic_path == MicPaths(paths, mic)
         IN  IF mic_path = <<>>
             THEN Did(Raise("ValueError", "No trajectory found for mic={}",
                            PyStr(mic)), <<>>)
             ELSE IF Len(mic_path) > 1
             THEN Did(Raise("ValueError",
                            "Found two or more trajectories for mic={}",
                            PyStr(mic)), <<>>)
             ELSE Did(load_f0(PyList(mic_path), files),
                      <<Call("load_f0", PyList(mic_path))>>)

Track_score(self, files) ==
    Did(load_score(PyStr(self.score_path), files),
        <<Call("load_score", PyStr(self.score_path))>>)

\* core.cached_property: the value stored at the first access that computes
\* one is what every later access gets; a computation that raises stores
\* nothing
CacheKey(name, mic, ann) == [name |-> name, mic |-> mic, ann |-> ann]

cached_property(stored, key, computed) ==
    IF key \in DOMAIN stored
    THEN [out |-> Return(stored[key]), calls |-> <<>>, cache |-> stored]
    ELSE [out |-> computed.out, calls |-> computed.calls,
          cache |-> IF computed.out.ok
                    THEN [k \in DOMAIN stored \cup {key} |->
                            IF k = key THEN computed.out.val ELSE stored[k]]
                    ELSE stored]

\* jams_utils.jams_converter, as the arguments it is handed
jams_converter(audio_path, f0_data, note_data) ==
    [type |-> "jams", audio_path |-> audio_path, f0_data |-> f0_data,
     note_data |-> note_data]

ScoreLabel == "time-aligned score representation"

F0AllPathsPyinFirst(self) ==
    self.f0_pyin_paths \o self.f0_crepe_paths \o self.f0_manual_paths

F0AllPaths(self) ==
    self.f0_crepe_paths \o self.f0_pyin_paths \o self.f0_manual_paths

Track_to_jams(self, files) ==
    LET f0_all_paths == F0AllPaths(self)
        loaded == [i \in 1..Len(f0_all_paths) |->
                     load_f0(PyStr(f0_all_paths[i]), files)]
        f0_calls == [i \in 1..Len(f0_all_paths) |->
                       Call("load_f0", PyStr(f0_all_paths[i]))]
        failed == {i \in 1..Len(f0_all_paths) : ~loaded[i].ok}
        f0_data == [i \in 1..Len(f0_all_paths) |->
                      <<loaded[i].val, basename(f0_all_paths[i])>>]
        score_call == Call("load_score", PyStr(self.score_path))
        score == load_score(PyStr(self.score_path), files)
    IN  IF failed # {}
        THEN LET first == CHOOSE i \in failed : \A j \in failed : i <= j
             IN  Did(loaded[first], SubSeq(f0_calls, 1, first))
        ELSE IF self.audio_paths = <<>>
        THEN Did(Raise("IndexError", "list index out of range", PyNone), f0_calls)
        ELSE IF ~score.ok
        THEN Did(score, Append(f0_calls, score_call))
        ELSE Did(Return(jams_converter(self.audio_paths[1], f0_data,
                                       <<<<score.val, ScoreLabel>>>>)),
                 Append(f0_calls, score_call))

----------------------------------------------------------------------------
(* Calls of the decoders on one file *)

DecodePath == <<"f">>

\* the texts a field in column k is drawn from
FieldDomain(k) ==
    IF k = 1 THEN {Numeral(0), Numeral(1), Text}
    ELSE IF k = 2 THEN {Numeral(2), Text}
    ELSE IF k = 3 THEN {Numeral(57), Numeral(69), Numeral(81), Text}
    ELSE {Numeral(7)}

AllFields == UNION {FieldDomain(k) : k \in 1..4}

RowsOfLen(n) == {r \in [1..n -> AllFields] : \A k \in 1..n : r[k] \in FieldDomain(k)}
CsvRows == UNION {RowsOfLen(n) : n \in 0..MaxFields}
CsvFiles == UNION {[1..m -> CsvRows] : m \in 0..MaxRows}

\* the (argument, state of the file) pairs a decoder is called with
DecodeInputs ==
    {<<PyStr(DecodePath), File(rows)>> : rows \in CsvFiles}
    \cup {<<a, f>> : a \in {PyNone, PyStr(DecodePath)}, f \in {Missing, File(<<>>)}}
    \cup {<<PyList(<<DecodePath>>), File(<<>>)>>}

NoTrack == [track_id |-> "none"]
NoStats == [ops |-> 0]

DecodeInit ==
    /\ fs = [p \in {DecodePath} |-> Missing]
    /\ track = NoTrack
    /\ cache = <<>>
    /\ pc = "start"
    /\ lastOp = [name |-> "none"]
    /\ outcome = Return(PyNone)
    /\ calls = <<>>
    /\ stats = NoStats
    /\ raised = {}

DecoderCall(name, in, result) ==
    /\ pc' = "done"
    /\ fs' = [p \in {DecodePath} |-> in[2]]
    /\ lastOp' = [name |-> name, arg |-> in[1]]
    /\ outcome' = result
    /\ UNCHANGED <<track, cache, calls, stats, raised>>

LoadAudioCall ==
    /\ pc = "start"
    /\ \E in \in DecodeInputs :
        /\ in[2] \in {Missing, File(<<>>)}
        /\ DecoderCall("load_audio", in, load_audio(in[1], [p \in {DecodePath} |-> in[2]]))

LoadF0Call ==
    /\ pc = "start"
    /\ \E in \in DecodeInputs :
        DecoderCall("load_f0", in, load_f0(in[1], [p \in {DecodePath} |-> in[2]]))

LoadScoreCall ==
    /\ pc = "start"
    /\ \E in \in DecodeInputs :
        DecoderCall("load_score", in, load_score(in[1], [p \in {DecodePath} |-> in[2]]))

DecodeNext == LoadAudioCall \/ LoadF0Call \/ LoadScoreCall

SpecDecode == DecodeInit /\ [][DecodeNext]_vars

\* the rows of the file a finished decoder call was given
GivenRows == fs[DecodePath].rows

DecodedFile(name) ==
    /\ pc = "done"
    /\ lastOp.name = name
    /\ lastOp.arg.type = "str"
    /\ fs[DecodePath].type = "file"

Column(rows, k) == [i \in 1..Len(rows) |-> Float(rows[i][k])]

----------------------------------------------------------------------------
\* C3: every PitchTrack load_f0 returns has time and frequency sequences of
\* equal length, and a confidence sequence that is absent or as long as the
\* time sequence.
C3_EqualLengths ==
    (DecodedFile("load_f0") /\ outcome.ok) =>
        /\ Len(outcome.val.times.data) = Len(outcome.val.frequencies.data)
        /\ \/ outcome.val.confidence.type = "NoneType"
           \/ Len(outcome.val.confidence.data) = Len(outcome.val.times.data)

\* C4 as stated: all rows with exactly 2 numeric fields give an absent
\* confidence; all rows with exactly 3 numeric fields give a confidence
\* sequence that is present and as long as the time sequence, all in row order.
AllRowsNumeric(rows, n) ==
    \A i \in 1..Len(rows) : Len(rows[i]) = n /\ RowReads(rows[i], n)

C4_TwoColumns ==
    (DecodedFile("load_f0") /\ AllRowsNumeric(GivenRows, 2)) =>
        /\ outcome.ok
        /\ outcome.val.confidence.type = "NoneType"
        /\ outcome.val.times.data = Column(GivenRows, 1)
        /\ outcome.val.frequencies.data = Column(GivenRows, 2)

C4_ThreeColumnsPresent ==
    /\ outcome.ok
    /\ outcome.val.confidence.type = "ndarray"
    /\ Len(outcome.val.confidence.data) = Len(outcome.val.times.data)
    /\ outcome.val.times.data = Column(GivenRows, 1)
    /\ outcome.val.frequencies.data = Column(GivenRows, 2)
    /\ outcome.val.confidence.data = Column(GivenRows, 3)

C4_AsStated ==
    /\ C4_TwoColumns
    /\ (DecodedFile("load_f0") /\ AllRowsNumeric(GivenRows, 3)) =>
           C4_ThreeColumnsPresent

\* C4, amended: the 3-column half holds for files with at least one row; a
\* file with no rows decodes to an absent confidence.
C4_Confidence ==
    /\ C4_TwoColumns
    /\ (DecodedFile("load_f0") /\ AllRowsNumeric(GivenRows, 3) /\ GivenRows # <<>>) =>
           C4_ThreeColumnsPresent

C4_Witness ==
    /\ DecodedFile("load_f0")
    /\ Len(GivenRows) = 2
    /\ AllRowsNumeric(GivenRows, 3)
    /\ GivenRows[1] # GivenRows[2]
    /\ outcome.ok
    /\ outcome.val.confidence.type = "ndarray"

\* C5: load_score fails on every file with a row of other than 3 fields, and
\* load_f0 on every file with a row of other than 2 or 3 fields.
C5_WrongFieldCountFails ==
    /\ (DecodedFile("load_score")
            /\ \E i \in 1..Len(GivenRows) : Len(GivenRows[i]) # 3)
         => ~outcome.ok
    /\ (DecodedFile("load_f0")
            /\ \E i \in 1..Len(GivenRows) : Len(GivenRows[i]) \notin {2, 3})
         => ~outcome.ok

\* C6: each decoder returns None for a None path, whether or not anything
\* exists, and raises the does-not-exist IOError for a path that is missing.
IsDecoder(name) == name \in {"load_audio", "load_f0", "load_score"}

C6_NoneAndMissing ==
    (pc = "done" /\ IsDecoder(lastOp.name)) =>
        /\ lastOp.arg.type = "NoneType" => outcome = Return(PyNone)
        /\ (lastOp.arg.type = "str" /\ fs[DecodePath].type = "missing") =>
               /\ ~outcome.ok
               /\ outcome.exc = "IOError"
               /\ outcome.arg = lastOp.arg

C6_Witness ==
    /\ pc = "done"
    /\ lastOp.name = "load_f0"
    /\ lastOp.arg.type = "NoneType"
    /\ fs[DecodePath].type = "missing"
    /\ outcome = Return(PyNone)

\* C8: a decoded score has one interval and one frequency per row, in row
\* order; interval i is [onset_i, offset_i]; MIDI 69 gives 440 Hz, MIDI 81
\* gives 880 Hz, MIDI 57 gives 220 Hz, and every whole octave above 69
\* doubles the frequency.
C8_ScoreRows ==
    (DecodedFile("load_score") /\ outcome.ok) =>
        LET iv == outcome.val.intervals.data
            nt == outcome.val.notes.data
        IN  /\ Len(iv) = Len(GivenRows)
            /\ Len(nt) = Len(iv)
            /\ \A i \in 1..Len(GivenRows) :
                 LET midi == Float(GivenRows[i][3])
                 IN  /\ iv[i] = <<Float(GivenRows[i][1]), Float(GivenRows[i][2])>>
                     /\ midi = 69 => nt[i] = 4400000
                     /\ midi = 81 => nt[i] = 8800000
                     /\ midi = 57 => nt[i] = 2200000
                     /\ (midi >= 69 /\ (midi - 69) % 12 = 0) =>
                            nt[i] = 4400000 * TwoTo((midi - 69) \div 12)

C8_Witness ==
    /\ DecodedFile("load_score")
    /\ outcome.ok
    /\ Len(GivenRows) = 2
    /\ Float(GivenRows[1][3]) = 81
    /\ Float(GivenRows[2][3]) = 69
    /\ outcome.val.notes.data = <<8800000, 4400000>>

----------------------------------------------------------------------------
(* One Track and the operations performed on it *)

\* the index entries a Track may be built from, in index order; the score
\* entry is always there
Entry(key, path) == [key |-> key, path |-> path]

OptionalEntries ==
    <<Entry(audio_ \o dyn, <<"a", "/">> \o dyn),
      Entry(audio_ \o dyn \o <<"2">>, <<"a", "/">> \o dyn \o <<"2">>),
      Entry(f0_crepe_ \o dyn, <<"c", "/">> \o dyn),
      Entry(f0_crepe_ \o dyn \o <<"2">>, <<"c", "/">> \o dyn \o <<"2">>),
      Entry(f0_pyin_ \o lrx, <<"p", "/">> \o lrx),
      Entry(f0_manual_ \o hsm, <<"m", "/">> \o hsm)>>

ScoreEntry == Entry(score_key, <<"s">>)

IndexOf(chosen) ==
    LET In(e) == e \in chosen
    IN  SelectSeq(OptionalEntries, In) \o <<ScoreEntry>>

Indexes ==
    {IndexOf(chosen) :
        chosen \in SUBSET {OptionalEntries[i] : i \in 1..Len(OptionalEntries)}}

FullIndex == OptionalEntries \o <<ScoreEntry>>
AllPaths == {get_path(FullIndex, FullIndex[i].key) : i \in 1..Len(FullIndex)}

ThreeColumns == File(<<<<Numeral(0), Numeral(2), Numeral(69)>>,
                       <<Numeral(1), Numeral(2), Numeral(81)>>>>)
TwoColumns == File(<<<<Numeral(1), Numeral(2)>>>>)
BadRow == File(<<<<Numeral(0), Text, Numeral(69)>>>>)

\* the states of the files: every file is there and well-formed, or the first
\* crepe file is missing, or the score file has a row that is no number
FileSystems ==
    {[p \in AllPaths |->
        IF p = get_path(FullIndex, f0_crepe_ \o dyn) THEN c
        ELSE IF p = get_path(FullIndex, score_key) THEN sc
        ELSE IF p = get_path(FullIndex, f0_pyin_ \o lrx) THEN TwoColumns
        ELSE ThreeColumns] :
     <<c, sc>> \in {<<ThreeColumns, ThreeColumns>>, <<Missing, ThreeColumns>>,
                    <<ThreeColumns, BadRow>>}}

Mics == {dyn, hsm, lrx, <<"x", "y", "z">>}
Anns == {crepe, pyin, manual, <<"f", "o", "o">>}

ZeroStats ==
    [ops |-> 0, audio_access |-> 0, audio_resolved |-> 0, audio_calls |-> 0,
     memo_log |-> <<>>]

Init ==
    /\ fs \in FileSystems
    /\ track \in {TrackInit(index) : index \in Indexes}
    /\ cache = <<>>
    /\ pc = "track"
    /\ lastOp = [name |-> "none"]
    /\ outcome = Return(PyNone)
    /\ calls = <<>>
    /\ stats = ZeroStats
    /\ raised = {}

\* which of the cases of path resolution a selector falls in
ResolutionCase(paths, selectorValid, mic) ==
    LET n == Cardinality({i \in 1..Len(paths) : IsSubstring(mic, paths[i])})
    IN  IF ~selectorValid THEN "InvalidArgument"
        ELSE IF n = 0 THEN "NotFound"
        ELSE IF n > 1 THEN "AmbiguousMatch"
        ELSE "Unique"

Candidates(ann) ==
    IF ann = crepe THEN track.f0_crepe_paths
    ELSE IF ann = pyin THEN track.f0_pyin_paths
    ELSE IF ann = manual THEN track.f0_manual_paths
    ELSE <<>>

\* the failures of resolution seen so far, each with the case it reports
Seen(case, r) ==
    IF ~r.out.ok /\ r.calls = <<>>
    THEN raised \cup {[case |-> case, exc |-> r.out.exc, fmt |-> r.out.fmt]}
    ELSE raised

AccessAudio(mic) ==
    LET r == Track_audio(track, mic, fs)
        case == ResolutionCase(track.audio_paths, mic \in ValidMics, mic)
    IN  /\ pc = "track"
        /\ stats.ops < MaxOps
        /\ lastOp' = [name |-> "audio", mic |-> mic, ann |-> <<>>, hit |-> FALSE]
        /\ outcome' = r.out
        /\ calls' = r.calls
        /\ stats' = [stats EXCEPT !.ops = @ + 1,
                                  !.audio_access = @ + 1,
                                  !.audio_resolved = @ + (IF case = "Unique" THEN 1 ELSE 0),
                                  !.audio_calls = @ + Len(r.calls)]
        /\ raised' = Seen(case, r)
        /\ UNCHANGED <<fs, track, cache, pc>>

AccessF0(mic, ann) ==
    LET key == CacheKey("f0", mic, ann)
        r == cached_property(cache, key, Track_f0(track, mic, ann, fs))
        case == ResolutionCase(Candidates(ann),
                               mic \in ValidMics /\ ann \in {crepe, pyin, manual}, mic)
    IN  /\ pc = "track"
        /\ stats.ops < MaxOps
        /\ lastOp' = [name |-> "f0", mic |-> mic, ann |-> ann,
                      hit |-> key \in DOMAIN cache]
        /\ outcome' = r.out
        /\ calls' = r.calls
        /\ cache' = r.cache
        /\ stats' = [stats EXCEPT !.ops = @ + 1,
                                  !.memo_log = IF r.calls # <<>> /\ r.out.ok
                                               THEN Append(@, key) ELSE @]
        /\ raised' = Seen(case, r)
        /\ UNCHANGED <<fs, track, pc>>

AccessScore ==
    LET key == CacheKey("score", <<>>, <<>>)
        r == cached_property(cache, key, Track_score(track, fs))
    IN  /\ pc = "track"
        /\ stats.ops < MaxOps
        /\ lastOp' = [name |-> "score", mic |-> <<>>, ann |-> <<>>,
                      hit |-> key \in DOMAIN cache]
        /\ outcome' = r.out
        /\ calls' = r.calls
        /\ cache' = r.cache
        /\ stats' = [stats EXCEPT !.ops = @ + 1,
                                  !.memo_log = IF r.calls # <<>> /\ r.out.ok
                                               THEN Append(@, key) ELSE @]
        /\ UNCHANGED <<fs, track, pc, raised>>

ToJams ==
    LET r == Track_to_jams(track, fs)
    IN  /\ pc = "track"
        /\ stats.ops < MaxOps
        /\ lastOp' = [name |-> "to_jams", mic |-> <<>>, ann |-> <<>>, hit |-> FALSE]
        /\ outcome' = r.out
        /\ calls' = r.calls
        /\ stats' = [stats EXCEPT !.ops = @ + 1]
        /\ UNCHANGED <<fs, track, cache, pc, raised>>

Next ==
    \/ \E mic \in Mics : AccessAudio(mic)
    \/ \E mic \in Mics, ann \in Anns : AccessF0(mic, ann)
    \/ AccessScore
    \/ ToJams

Spec == Init /\ [][Next]_vars

----------------------------------------------------------------------------
(* Path resolution in Track.audio and Track.f0 *)

AccessDone == pc = "track" /\ lastOp.name \in {"audio", "f0"}

LastCandidates ==
    IF lastOp.name = "audio" THEN track.audio_paths ELSE Candidates(lastOp.ann)

LastSelectorValid ==
    /\ lastOp.mic \in ValidMics
    /\ lastOp.name = "f0" => lastOp.ann \in {crepe, pyin, manual}

LastCase == ResolutionCase(LastCandidates, LastSelectorValid, lastOp.mic)

\* the one candidate that contains the mic token
TheMatch ==
    LastCandidates[CHOOSE i \in 1..Len(LastCandidates) :
                       IsSubstring(lastOp.mic, LastCandidates[i])]

\* the failure a raised error reports, read off its message
FailureOfMessage(fmt) ==
    IF fmt \in {"mic={} is invalid", "ann={} is invalid"}
    THEN "InvalidArgument"
    ELSE IF fmt \in {"No microphone signal found for mic={}",
                     "No trajectory found for mic={}"}
    THEN "NotFound"
    ELSE IF fmt \in {"Found two or more microphone signals for mic={}",
                     "Found two or more trajectories for mic={}"}
    THEN "AmbiguousMatch"
    ELSE "other"

ReportedFailure(out) == IF out.ok THEN "none" ELSE FailureOfMessage(out.fmt)

SameOutcome(a, b) ==
    /\ a.ok = b.ok
    /\ a.ok => a.val = b.val
    /\ ~a.ok => (a.exc = b.exc /\ a.fmt = b.fmt)

\* C1: an invalid selector gives InvalidArgument whatever the paths are; a
\* valid one gives NotFound for no match, AmbiguousMatch for several, and for
\* exactly one match the accessor hands that single path to the decoder and
\* returns the decoder's result.
C1_Resolution ==
    AccessDone =>
        /\ LastCase # "Unique" =>
               /\ ~outcome.ok
               /\ calls = <<>>
               /\ ReportedFailure(outcome) = LastCase
        /\ LastCase = "Unique" =>
               /\ calls = <<Call(IF lastOp.name = "audio" THEN "load_audio"
                                 ELSE "load_f0", PyStr(TheMatch))>>
               /\ SameOutcome(outcome,
                              IF lastOp.name = "audio"
                              THEN load_audio(PyStr(TheMatch), fs)
                              ELSE load_f0(PyStr(TheMatch), fs))

\* with several matching paths the accessor raises and calls no decoder
NeverFirstMatch ==
    (AccessDone /\ LastCase = "AmbiguousMatch") =>
        /\ ~outcome.ok
        /\ calls = <<>>
        /\ ReportedFailure(outcome) = "AmbiguousMatch"

----------------------------------------------------------------------------
(* Memoized and unmemoized accessors *)

MemoAccess == pc = "track" /\ lastOp.name \in {"score", "f0"}
LastKey == CacheKey(lastOp.name, lastOp.mic, lastOp.ann)
Logged(key) == \E i \in 1..Len(stats.memo_log) : stats.memo_log[i] = key

\* a memoized accessor decodes successfully at most once, and once it has,
\* every access returns the stored value without calling the decoder
MemoizedOnce ==
    /\ \A i, j \in 1..Len(stats.memo_log) :
           i # j => stats.memo_log[i] # stats.memo_log[j]
    /\ \A i \in 1..Len(stats.memo_log) : stats.memo_log[i] \in DOMAIN cache
    /\ (MemoAccess /\ Logged(LastKey)) =>
           /\ outcome = Return(cache[LastKey])
           /\ \/ lastOp.hit /\ calls = <<>>
              \/ ~lastOp.hit /\ stats.memo_log[Len(stats.memo_log)] = LastKey

----------------------------------------------------------------------------
(* Track.to_jams *)

JamsDone == pc = "track" /\ lastOp.name = "to_jams"

\* the files registered under keys that contain a token, in index order
Registered(token) ==
    LET index == track._track_paths
        at == {i \in 1..Len(index) : IsSubstring(token, index[i].key)}
        Nth(n) == CHOOSE i \in at : Cardinality({j \in at : j < i}) = n - 1
    IN  [n \in 1..Cardinality(at) |-> data_home \o <<"/">> \o index[Nth(n)].path]

IsBasenameOf(label, path) ==
    /\ \A k \in 1..Len(label) : label[k] # "/"
    /\ Len(label) < Len(path)
    /\ path[Len(path) - Len(label)] = "/"
    /\ SubSeq(path, Len(path) - Len(label) + 1, Len(path)) = label

\* C9: to_jams hands the converter the first registered audio path, one
\* (decoded pitch track, basename) pair per registered pitch file in the order
\* crepe, pyin, manual, and one (decoded score, fixed label) pair.
C9_JamsArguments ==
    (JamsDone /\ outcome.ok) =>
        LET jam == outcome.val
            pitch == Registered(f0_crepe_) \o Registered(f0_pyin_)
                        \o Registered(f0_manual_)
        IN  /\ jam.audio_path = Registered(audio_)[1]
            /\ Len(jam.f0_data) = Len(pitch)
            /\ \A i \in 1..Len(pitch) :
                   /\ jam.f0_data[i][1] = load_f0(PyStr(pitch[i]), fs).val
                   /\ IsBasenameOf(jam.f0_data[i][2], pitch[i])
            /\ Len(jam.note_data) = 1
            /\ jam.note_data[1][1] = load_score(PyStr(Registered(score_key)[1]), fs).val
            /\ jam.note_data[1][2] = "time-aligned score representation"

C9_Witness ==
    /\ JamsDone
    /\ outcome.ok
    /\ Len(track.audio_paths) = 2
    /\ Len(outcome.val.f0_data) = 4
    /\ outcome.val.f0_data[3][2] = lrx
    /\ outcome.val.f0_data[3][1].confidence.type = "NoneType"

\* C10: to_jams fails only when a decoder it calls fails.
DecoderResult(c) ==
    IF c.fn = "load_f0" THEN load_f0(c.arg, fs) ELSE load_score(c.arg, fs)

C10_OnlyDecoderFailures ==
    (JamsDone /\ ~outcome.ok) =>
        /\ calls # <<>>
        /\ ~DecoderResult(calls[Len(calls)]).ok
        /\ SameOutcome(outcome, DecoderResult(calls[Len(calls)]))

====
